---- MODULE Spec2Model ----
(***************************************************************************)
(* Model of the tool adapter layer of datamesh_manager_mcp/server.py: the  *)
(* four tools dataproduct_list, dataproduct_search, dataproduct_get and    *)
(* datacontract_get, their normalization of upstream records and their     *)
(* exception handlers.                                                     *)
(*                                                                         *)
(* Python values are encoded as tagged records: Str(s), Null (None),       *)
(* Map(m) (a dict), List(xs); a key that a dict does not carry holds       *)
(* Absent.  A text (a Python str built by concatenation or an f-string)    *)
(* is the sequence of its pieces, so "prefix" + message is <<prefix,       *)
(* message>> and a bare message is <<message>>.                            *)
(***************************************************************************)
EXTENDS Integers, Sequences, FiniteSets, TLC

VARIABLES
    pc,                 \* position of the invocation: idle, awaiting, loop, done, raised
    op,                 \* the tool being invoked
    configured,         \* environment: credential and base URL are configured
    yamlInstalled,      \* environment: `import yaml` succeeds
    calls,              \* upstream requests issued by the current invocation
    outcome,            \* what the awaited client call produced
    data_products,      \* list/search: the sequence being normalized
    formatted_products, \* list/search: the records normalized so far
    idx,                \* list/search: index of the next record to normalize
    e,                  \* the exception bound by the except clause that ran
    serialized,         \* get: yaml.dump was called in this invocation
    result,             \* the value returned to the Tool Host
    raised              \* the exception that left the tool

vars == <<pc, op, configured, yamlInstalled, calls, outcome, data_products,
          formatted_products, idx, e, serialized, result, raised>>

----------------------------------------------------------------------------
(* Bounds *)

MaxRecords == 2     \* longest upstream sequence of records
MaxFields == 2      \* most keys in a full record returned by get-by-id

----------------------------------------------------------------------------
(* Python values *)

Absent == [t |-> "absent"]
Null == [t |-> "null"]
Str(s) == [t |-> "str", s |-> s]
Map(m) == [t |-> "map", m |-> m]
List(xs) == [t |-> "list", items |-> xs]
\* A dict whose key order matters: the sequence of its (key, value) pairs.
OMap(ps) == [t |-> "omap", pairs |-> ps]

\* The literal "N/A" of lines 77-80 and 118-122.
NA == Str("N/A")

\* bool(v): None, "", {} and [] are falsy.
Truthy(v) ==
    CASE v.t = "str" -> v.s # ""
      [] v.t = "map" -> \E k \in DOMAIN v.m : v.m[k] # Absent
      [] v.t = "list" -> Len(v.items) > 0
      [] v.t = "omap" -> Len(v.pairs) > 0
      [] OTHER -> FALSE

\* d.get(k, default)
GetDefault(d, k, default) ==
    IF k \in DOMAIN d /\ d[k] # Absent THEN d[k] ELSE default

\* d.get(k)
Get(d, k) == GetDefault(d, k, Null)

\* a or b
PyOr(a, b) == IF Truthy(a) THEN a ELSE b

\* {} as the default of dp.get("info", {})
EmptyMap == Map([none |-> Absent])

----------------------------------------------------------------------------
(* Exceptions *)

NoExc == [cls |-> "none", msg |-> ""]
Exc(cls, msg) == [cls |-> cls, msg |-> msg]

\* Classes caught by `except ValueError`.
IsValueError(cls) == cls = "ValueError"

\* Variant: the generic clause misses errors raised by the normalization.
IsException_Narrow(cls) == cls \in {"ValueError", "UpstreamError", "ImportError", "TypeError"}

\* Classes caught by `except Exception`; asyncio.CancelledError derives from
\* BaseException only.
IsException(cls) ==
    cls \in {"ValueError", "UpstreamError", "AttributeError", "ImportError", "TypeError"}

\* x.get(...) on a value that is not a dict.
AttributeError(v) ==
    Exc("AttributeError",
        IF v.t = "null" THEN "'NoneType' object has no attribute 'get'"
        ELSE IF v.t = "str" THEN "'str' object has no attribute 'get'"
        ELSE "'list' object has no attribute 'get'")

Ok(v) == [ok |-> TRUE, v |-> v]
Raise(x) == [ok |-> FALSE, exc |-> x]

----------------------------------------------------------------------------
(* Response normalization *)

\* dp.get(top) or dp.get("info", {}).get(nested) or "N/A"
\* The right operand of the first `or` is evaluated only when the left one
\* is falsy; .get on a value of info that is not a dict raises.
TopOrNested(dp, top, nested) ==
    LET a == Get(dp, top)
        info == GetDefault(dp, "info", EmptyMap)
    IN  IF Truthy(a) THEN Ok(a)
        ELSE IF info.t # "map" THEN Raise(AttributeError(info))
        ELSE Ok(PyOr(Get(info.m, nested), NA))

\* dp.get("id", "N/A")
IdField(dp) == GetDefault(dp, "id", NA)

\* dp.get(k) or "N/A"
TopOnly(dp, k) == PyOr(Get(dp, k), NA)

\* The dict display of dataproduct_list, evaluated in source order.
FormatListProduct(dp) ==
    LET name == TopOrNested(dp, "title", "title")
        description == TopOrNested(dp, "description", "description")
        owner == TopOrNested(dp, "owner", "owner")
    IN  IF ~name.ok THEN name
        ELSE IF ~description.ok THEN description
        ELSE IF ~owner.ok THEN owner
        ELSE Ok([id |-> IdField(dp), name |-> name.v,
                 description |-> description.v, owner |-> owner.v])

\* Variant: the search normalizer also emits a combined owner field.
FormatSearchProduct_WithOwner(dp) ==
    LET description == TopOrNested(dp, "description", "description")
    IN  IF ~description.ok THEN description
        ELSE Ok([id |-> IdField(dp), name |-> TopOnly(dp, "name"),
                 description |-> description.v,
                 owner |-> TopOnly(dp, "owner"),
                 ownerId |-> TopOnly(dp, "ownerId"),
                 ownerName |-> TopOnly(dp, "ownerName")])

\* The dict display of dataproduct_search.
FormatSearchProduct(dp) ==
    LET description == TopOrNested(dp, "description", "description")
    IN  IF ~description.ok THEN description
        ELSE Ok([id |-> IdField(dp), name |-> TopOnly(dp, "name"),
                 description |-> description.v,
                 ownerId |-> TopOnly(dp, "ownerId"),
                 ownerName |-> TopOnly(dp, "ownerName")])

\* Variant: records are inserted at the front.
AppendProduct_Prepend(fp, p) == <<p>> \o fp

\* formatted_products.append(formatted_product)
AppendProduct(fp, p) == Append(fp, p)

----------------------------------------------------------------------------
(* Serialization of a full record *)

\* A scalar as yaml.dump writes it.
YamlScalar(v) ==
    CASE v.t = "null" -> "null"
      [] v.t = "str" /\ v.s = "" -> "''"
      [] OTHER -> v.s

RECURSIVE YamlLines(_)
YamlLines(ps) ==
    IF ps = <<>> THEN <<>>
    ELSE <<Head(ps).k, ": ", YamlScalar(Head(ps).v), "\n">> \o YamlLines(Tail(ps))

\* yaml.dump(record, default_flow_style=False, sort_keys=False)
YamlDump(rec) == IF rec.pairs = <<>> THEN <<"{}\n">> ELSE YamlLines(rec.pairs)

----------------------------------------------------------------------------
(* Tools and their results *)

ListOps == {"dataproduct_list", "dataproduct_search"}
GetOps == {"dataproduct_get", "datacontract_get"}
Ops == ListOps \cup GetOps

NoResult == [kind |-> "none"]
ListResult(xs) == [kind |-> "list", items |-> xs]
TextResult(t) == [kind |-> "text", text |-> t]

ErrorRecord(t) == [error |-> t]

\* The prefix of the `except Exception` clause of each tool.
Prefix(o) ==
    CASE o = "dataproduct_list" -> "Error fetching data products: "
      [] o = "dataproduct_search" -> "Error searching data products: "
      [] o = "dataproduct_get" -> "Error fetching data product: "
      [] o = "datacontract_get" -> "Error fetching data contract: "

\* The literal returned when the fetched entity is falsy.
NotFound(o) ==
    IF o = "dataproduct_get" THEN <<"Data product not found">>
    ELSE <<"Data contract not found">>

\* Variant: the configuration message of list/search gets the tool's prefix.
ValueErrorResult_Prefixed(o, x) ==
    IF o \in ListOps THEN ListResult(<<ErrorRecord(<<Prefix(o), x.msg>>)>>)
    ELSE TextResult(<<"Error: ", x.msg>>)

\* except ValueError as e
ValueErrorResult(o, x) ==
    IF o \in ListOps THEN ListResult(<<ErrorRecord(<<x.msg>>)>>)
    ELSE TextResult(<<"Error: ", x.msg>>)

\* Variant: the generic handler of the get tools uses the "Error: " form.
ExceptionResult_ShortPrefix(o, x) ==
    IF o \in ListOps THEN ListResult(<<ErrorRecord(<<Prefix(o), x.msg>>)>>)
    ELSE TextResult(<<"Error: ", x.msg>>)

\* except Exception as e
ExceptionResult(o, x) ==
    IF o \in ListOps THEN ListResult(<<ErrorRecord(<<Prefix(o), x.msg>>)>>)
    ELSE TextResult(<<Prefix(o), x.msg>>)

\* The try statement's handling of an exception x raised in its body: the
\* first matching except clause returns; an exception that matches none
\* leaves the tool.
Handled(o, x) ==
    IF IsValueError(x.cls)
        THEN [pc |-> "done", result |-> ValueErrorResult(o, x), e |-> x, raised |-> NoExc]
    ELSE IF IsException(x.cls)
        THEN [pc |-> "done", result |-> ExceptionResult(o, x), e |-> x, raised |-> NoExc]
    ELSE [pc |-> "raised", result |-> NoResult, e |-> NoExc, raised |-> x]

\* A return statement in the try body.
Returned(r) == [pc |-> "done", result |-> r, e |-> NoExc, raised |-> NoExc]

----------------------------------------------------------------------------
(* Registry client and upstream responses *)

\* Message of the error the client constructor raises without configuration.
ConfigMessage == "API key is required"

\* DataMeshManagerClient(): fails before any request when the credential or
\* the base URL is missing.
ClientConstruct(conf) ==
    IF conf THEN Ok(Null) ELSE Raise(Exc("ValueError", ConfigMessage))

TopVals(s) == {Absent, Null, Str(""), Str(s)}
IdVals == {Absent, Null, Str(""), Str("dp-1"), Str("dp-2")}

ListInfoVals ==
    {Absent, Null, Str("n/a")} \cup
    {Map(m) : m \in [title : TopVals("Info Title"),
                     description : TopVals("Info description"),
                     owner : TopVals("info-team")]}

\* Records of the list endpoint.
ListRecords ==
    [id : IdVals, title : TopVals("Sales Data"),
     description : TopVals("Sales figures"), owner : TopVals("team-a"),
     info : ListInfoVals]

SearchInfoVals ==
    {Absent, Null, Str("n/a")} \cup
    {Map(m) : m \in [description : TopVals("Info description"),
                     owner : {Absent, Str("info-team")}]}

\* Records of the search endpoint.
SearchRecords ==
    [id : IdVals, name : TopVals("Sales Data"),
     description : TopVals("Sales figures"),
     ownerId : TopVals("u-1"), ownerName : TopVals("Alice"),
     owner : {Absent, Str("team-a")}, info : SearchInfoVals]

\* Shapes used in responses of more than one record.
CoreListRecords ==
    {r \in ListRecords :
        /\ r.id \in {Str("dp-1"), Str("dp-2")}
        /\ r.title \in {Str(""), Str("Sales Data")}
        /\ r.description = Absent
        /\ r.owner = Str("team-a")
        /\ r.info \in {Absent, Null,
                       Map([title |-> Absent, description |-> Str("Info description"),
                            owner |-> Absent])}}

CoreSearchRecords ==
    {r \in SearchRecords :
        /\ r.id \in {Str("dp-1"), Str("dp-2")}
        /\ r.name \in {Str(""), Str("Sales Data")}
        /\ r.description = Absent
        /\ r.ownerId = Str("u-1")
        /\ r.ownerName = Absent
        /\ r.owner = Absent
        /\ r.info \in {Absent, Null,
                       Map([description |-> Str("Info description"), owner |-> Absent])}}

\* Sequences of records: every shape alone, core shapes in longer sequences.
RecordSeqs(all, core) ==
    {<<>>} \cup {<<r>> : r \in all} \cup
    UNION {[1..n -> core] : n \in 2..MaxRecords}

EntityKeys == {"id", "title", "owner"}
EntityVals == {Null, Str(""), Str("dp-1")}

\* Full records of the get endpoints: ordered, keys distinct.
Entities ==
    {OMap(ps) : ps \in
        {qs \in UNION {[1..n -> [k : EntityKeys, v : EntityVals]] : n \in 0..MaxFields} :
            \A i, j \in 1..Len(qs) : i # j => qs[i].k # qs[j].k}}

UpstreamErrors ==
    {Exc("UpstreamError", "500 Internal Server Error"),
     Exc("UpstreamError", "timed out")}

\* Cancellation of the awaited call by the host.
Cancelled == Exc("CancelledError", "")

Value(v) == [kind |-> "value", val |-> v]
Raises(x) == [kind |-> "raise", exc |-> x]
NoOutcome == [kind |-> "none"]

Failures == {Raises(x) : x \in UpstreamErrors \cup {Cancelled}}

\* client.get_data_products(...)
ListOutcomes ==
    {Value(List(s)) : s \in RecordSeqs(ListRecords, CoreListRecords)} \cup Failures

\* client.search(...): results wrapped under the results key
SearchOutcomes ==
    {Value(Map([results |-> rs, total |-> Str("n")])) :
        rs \in {Absent, Null} \cup
               {List(s) : s \in RecordSeqs(SearchRecords, CoreSearchRecords)}}
    \cup Failures

\* client.get_data_product(id) / client.get_data_contract(id): None when
\* the registry reports not found
GetOutcomes == {Value(Null)} \cup {Value(v) : v \in Entities} \cup Failures

----------------------------------------------------------------------------
(* The invocation of a tool *)

Finish(h) ==
    /\ pc' = h.pc
    /\ result' = h.result
    /\ e' = h.e
    /\ raised' = h.raised

\* The tool runs from its entry to the await of the client call: the client
\* is constructed and, unless that raises, the request is issued.
Start(o) ==
    /\ pc = "idle"
    /\ op' = o
    /\ outcome' = NoOutcome
    /\ data_products' = <<>>
    /\ formatted_products' = <<>>
    /\ idx' = 1
    /\ serialized' = FALSE
    /\ LET client == ClientConstruct(configured)
       IN  IF client.ok
           THEN /\ calls' = 1
                /\ Finish([pc |-> "awaiting", result |-> NoResult,
                           e |-> NoExc, raised |-> NoExc])
           ELSE /\ calls' = 0
                /\ Finish(Handled(o, client.exc))
    /\ UNCHANGED <<configured, yamlInstalled>>

dataproduct_list == Start("dataproduct_list")
dataproduct_search == Start("dataproduct_search")
dataproduct_get == Start("dataproduct_get")
datacontract_get == Start("datacontract_get")

\* Variant: without the emptiness test an absent sequence is iterated.
EnterLoop_NoEmptyTest(products) ==
    IF products.t # "list"
    THEN /\ Finish(Handled(op, Exc("TypeError", "'NoneType' object is not iterable")))
         /\ data_products' = <<>>
    ELSE IF products.items = <<>>
    THEN /\ Finish(Returned(ListResult(<<>>)))
         /\ data_products' = <<>>
    ELSE /\ Finish([pc |-> "loop", result |-> NoResult, e |-> NoExc, raised |-> NoExc])
         /\ data_products' = products.items

\* `if not data_products: return []`, else the loop is entered.
EnterLoop(products) ==
    IF ~Truthy(products)
    THEN /\ Finish(Returned(ListResult(<<>>)))
         /\ data_products' = <<>>
    ELSE /\ Finish([pc |-> "loop", result |-> NoResult, e |-> NoExc, raised |-> NoExc])
         /\ data_products' = products.items

\* dataproduct_list resumes from `await client.get_data_products(...)`.
ResumeList ==
    /\ pc = "awaiting"
    /\ op = "dataproduct_list"
    /\ \E out \in ListOutcomes :
        /\ outcome' = out
        /\ IF out.kind = "raise"
           THEN Finish(Handled(op, out.exc)) /\ data_products' = <<>>
           ELSE EnterLoop(out.val)
    /\ UNCHANGED <<op, configured, yamlInstalled, calls, formatted_products, idx, serialized>>

\* dataproduct_search resumes from `await client.search(...)` and unwraps
\* search_results.get("results", []).
ResumeSearch ==
    /\ pc = "awaiting"
    /\ op = "dataproduct_search"
    /\ \E out \in SearchOutcomes :
        /\ outcome' = out
        /\ IF out.kind = "raise"
           THEN Finish(Handled(op, out.exc)) /\ data_products' = <<>>
           ELSE EnterLoop(GetDefault(out.val.m, "results", List(<<>>)))
    /\ UNCHANGED <<op, configured, yamlInstalled, calls, formatted_products, idx, serialized>>

\* One iteration of `for dp in data_products`, and the return after the last.
NormalizeStep ==
    /\ pc = "loop"
    /\ LET dp == data_products[idx]
           fmt == IF op = "dataproduct_list" THEN FormatListProduct(dp)
                  ELSE FormatSearchProduct(dp)
       IN  IF ~fmt.ok
           THEN /\ Finish(Handled(op, fmt.exc))
                /\ UNCHANGED <<formatted_products, idx>>
           ELSE /\ formatted_products' = AppendProduct(formatted_products, fmt.v)
                /\ IF idx = Len(data_products)
                   THEN /\ Finish(Returned(ListResult(formatted_products')))
                        /\ UNCHANGED idx
                   ELSE /\ idx' = idx + 1
                        /\ UNCHANGED <<pc, result, e, raised>>
    /\ UNCHANGED <<op, configured, yamlInstalled, calls, outcome, data_products, serialized>>

\* `if not data_product` / `if not data_contract`
IsNotFound(entity) == ~Truthy(entity)

\* dataproduct_get / datacontract_get resume from the await: the not-found
\* test, `import yaml`, yaml.dump and the return.
ResumeGet ==
    /\ pc = "awaiting"
    /\ op \in GetOps
    /\ \E out \in GetOutcomes :
        /\ outcome' = out
        /\ IF out.kind = "raise"
           THEN Finish(Handled(op, out.exc)) /\ UNCHANGED serialized
           ELSE IF IsNotFound(out.val)
           THEN Finish(Returned(TextResult(NotFound(op)))) /\ UNCHANGED serialized
           ELSE IF ~yamlInstalled
           THEN /\ Finish(Handled(op, Exc("ImportError", "No module named 'yaml'")))
                /\ UNCHANGED serialized
           ELSE /\ serialized' = TRUE
                /\ Finish(Returned(TextResult(YamlDump(out.val))))
    /\ UNCHANGED <<op, configured, yamlInstalled, calls, data_products,
                   formatted_products, idx>>

\* The Tool Host takes the returned value or the raised exception.
HostReceives ==
    /\ pc \in {"done", "raised"}
    /\ pc' = "idle"
    /\ UNCHANGED <<op, configured, yamlInstalled, calls, outcome, data_products,
                   formatted_products, idx, e, serialized, result, raised>>

Init ==
    /\ pc = "idle"
    /\ op = "none"
    /\ configured \in BOOLEAN
    /\ yamlInstalled \in BOOLEAN
    /\ calls = 0
    /\ outcome = NoOutcome
    /\ data_products = <<>>
    /\ formatted_products = <<>>
    /\ idx = 1
    /\ e = NoExc
    /\ serialized = FALSE
    /\ result = NoResult
    /\ raised = NoExc

Next ==
    \/ dataproduct_list
    \/ dataproduct_search
    \/ dataproduct_get
    \/ datacontract_get
    \/ ResumeList
    \/ ResumeSearch
    \/ ResumeGet
    \/ NormalizeStep
    \/ HostReceives

Spec == Init /\ [][Next]_vars

----------------------------------------------------------------------------
(* Properties *)

Done == pc = "done"

\* A value that is a non-empty string.
Present(v) == v.t = "str" /\ v.s # ""

\* The invocation ended in an except clause.
Failed == Done /\ e # NoExc

\* The invocation failed because the client could not be constructed.
ConfigFailed == Done /\ ~configured

\* The client call returned a value (it neither raised nor was cancelled).
ClientReturned == Done /\ outcome.kind = "value"

\* The result is the one-element error marker / the error text.
IsErrorMarker(r) ==
    r.kind = "list" /\ Len(r.items) = 1 /\ DOMAIN r.items[1] = {"error"}

ErrorText(r) == IF r.kind = "list" THEN r.items[1].error ELSE r.text

HasErrorElement(r) ==
    \E i \in 1..Len(r.items) : "error" \in DOMAIN r.items[i]

\* The records the client call delivered to the normalization loop.
UpstreamRecords ==
    IF op = "dataproduct_list" THEN outcome.val.items
    ELSE LET rs == GetDefault(outcome.val.m, "results", List(<<>>))
         IN  IF rs.t = "list" THEN rs.items ELSE <<>>

\* C1 (as stated): a configuration error is rendered with its own message
\* only, [{"error": message}] for list/search and the bare message for the
\* get tools, and no upstream request is made.
C1_ConfigErrorBareMessage ==
    ConfigFailed =>
        /\ calls = 0
        /\ result = IF op \in ListOps
                    THEN ListResult(<<ErrorRecord(<<ConfigMessage>>)>>)
                    ELSE TextResult(<<ConfigMessage>>)

\* C1 (amended): a configuration error makes no upstream request and is
\* rendered as [{"error": message}] by list/search and as "Error: " followed
\* by the message by the two get tools; the tool's own prefix is never used.
C1_ConfigErrorRendering ==
    ConfigFailed =>
        /\ calls = 0
        /\ outcome = NoOutcome
        /\ result = IF op \in ListOps
                    THEN ListResult(<<ErrorRecord(<<ConfigMessage>>)>>)
                    ELSE TextResult(<<"Error: ", ConfigMessage>>)

C1_Witness ==
    /\ ConfigFailed
    /\ op = "dataproduct_list"
    /\ result = ListResult(<<ErrorRecord(<<ConfigMessage>>)>>)

\* C2: a failure that is not a configuration error (the client call raises
\* an upstream error, the normalization raises, the serialization step fails)
\* is rendered as the tool's prefix followed by the message, never in the
\* form of a configuration error.
C2_OtherFailuresPrefixed ==
    (Failed /\ configured) =>
        /\ result.kind = IF op \in ListOps THEN "list" ELSE "text"
        /\ result.kind = "list" => IsErrorMarker(result)
        /\ ErrorText(result) = <<Prefix(op), e.msg>>
        /\ result # ValueErrorResult(op, e)

C2_Witness ==
    /\ Failed
    /\ configured
    /\ op = "datacontract_get"
    /\ e.cls = "UpstreamError"
    /\ result = TextResult(<<"Error fetching data contract: ", e.msg>>)

\* C3 (as stated): whatever the client call and the normalization or
\* serialization do, cancellation included, the invocation returns a value
\* and no exception leaves the tool.
C3_NothingPropagates ==
    /\ pc # "raised"
    /\ raised = NoExc

\* C3 (amended): an exception leaves the tool only when the host cancelled
\* the awaited client call; for every other outcome of the client call, the
\* normalization and the serialization the invocation returns a value.
C3_OnlyCancellationPropagates ==
    /\ pc \in {"idle", "awaiting", "loop", "done", "raised"}
    /\ raised # NoExc => raised = Cancelled /\ outcome = Raises(Cancelled)
    /\ pc = "raised" => raised # NoExc /\ result = NoResult
    /\ Done => raised = NoExc /\ result.kind \in {"list", "text"}
    /\ (pc \in {"done", "raised"} /\ outcome = Raises(Cancelled)) => pc = "raised"

C3_Witness ==
    /\ Done
    /\ op = "dataproduct_search"
    /\ e.cls = "AttributeError"
    /\ IsErrorMarker(result)

\* C4: every field (id included) of every record that list/search return on
\* success is a non-empty value, "N/A" standing for a value that upstream
\* is absent, null or empty.
C4_EveryFieldPresentOrNA ==
    (ClientReturned /\ op \in ListOps /\ ~Failed) =>
        \A i \in 1..Len(result.items) :
            \A f \in DOMAIN result.items[i] : Present(result.items[i][f])

\* C5: the normalization of list/search does not fail on a record, whatever
\* keys it lacks and whatever it holds under info: each upstream record
\* yields a normalized record and the result holds no error marker.
C5_NormalizationNeverFails ==
    (ClientReturned /\ op \in ListOps) =>
        /\ ~Failed
        /\ Len(result.items) = Len(UpstreamRecords)
        /\ ~HasErrorElement(result)

\* Priority order of one list attribute, stated over the record.
Priority(dp, k) ==
    IF Present(dp[k]) THEN dp[k]
    ELSE IF dp.info.t = "map" /\ Present(dp.info.m[k]) THEN dp.info.m[k]
    ELSE NA

\* C6: for every upstream record of dataproduct_list, name, description and
\* owner are the top-level value when non-empty, else the value under info
\* when non-empty, else "N/A".
C6_PriorityOrder ==
    (ClientReturned /\ op = "dataproduct_list") =>
        /\ Len(result.items) = Len(UpstreamRecords)
        /\ \A i \in 1..Len(UpstreamRecords) :
            /\ DOMAIN result.items[i] = {"id", "name", "description", "owner"}
            /\ result.items[i].name = Priority(UpstreamRecords[i], "title")
            /\ result.items[i].description = Priority(UpstreamRecords[i], "description")
            /\ result.items[i].owner = Priority(UpstreamRecords[i], "owner")

\* The priority order on the records whose normalization completes.
C6_PriorityOrderOnSuccess ==
    (ClientReturned /\ op = "dataproduct_list" /\ ~Failed) =>
        /\ Len(result.items) = Len(UpstreamRecords)
        /\ \A i \in 1..Len(UpstreamRecords) :
            /\ result.items[i].name = Priority(UpstreamRecords[i], "title")
            /\ result.items[i].description = Priority(UpstreamRecords[i], "description")
            /\ result.items[i].owner = Priority(UpstreamRecords[i], "owner")

\* The successful response carries no results.
ZeroResults ==
    IF op = "dataproduct_list" THEN outcome.val.items = <<>>
    ELSE \/ outcome.val.m.results \in {Absent, Null}
         \/ outcome.val.m.results = List(<<>>)

\* C7: when the client call succeeds with zero results (for search: an empty
\* results sequence or no results to unwrap), list/search return the empty
\* sequence, neither an error marker nor nothing.
C7_ZeroResultsEmptySequence ==
    (ClientReturned /\ op \in ListOps /\ ZeroResults) =>
        /\ result = ListResult(<<>>)
        /\ ~Failed

C7_Witness ==
    /\ ClientReturned
    /\ op = "dataproduct_search"
    /\ outcome.val.m.results = Null
    /\ result = ListResult(<<>>)

\* C8: the get tools return the not-found literal exactly when the client
\* reports the entity as not found, without serializing; a record that the
\* registry returned is serialized, not reported as not found.
C8_NotFoundIffReported ==
    (ClientReturned /\ op \in GetOps) =>
        /\ result = TextResult(NotFound(op)) <=> outcome.val = Null
        /\ outcome.val = Null => ~serialized
        /\ (outcome.val # Null /\ yamlInstalled) => serialized

\* C9: every record dataproduct_search returns on success has exactly the
\* fields id, name, description, ownerId and ownerName, the last two taken
\* from the upstream ownerId and ownerName; it has no owner field.
C9_SearchFields ==
    (ClientReturned /\ op = "dataproduct_search" /\ ~Failed) =>
        /\ Len(result.items) = Len(UpstreamRecords)
        /\ \A i \in 1..Len(UpstreamRecords) :
            LET dp == UpstreamRecords[i]
                r == result.items[i]
            IN  /\ DOMAIN r = {"id", "name", "description", "ownerId", "ownerName"}
                /\ r.ownerId = IF Present(dp.ownerId) THEN dp.ownerId ELSE NA
                /\ r.ownerName = IF Present(dp.ownerName) THEN dp.ownerName ELSE NA

C9_Witness ==
    /\ ClientReturned
    /\ op = "dataproduct_search"
    /\ ~Failed
    /\ Len(result.items) = 1
    /\ UpstreamRecords[1].owner = Str("team-a")
    /\ UpstreamRecords[1].info.t = "map"
    /\ UpstreamRecords[1].info.m.owner = Str("info-team")
    /\ result.items[1].ownerId = Str("u-1")
    /\ result.items[1].ownerName = NA

\* C10: the result of list/search is either one normalized record per
\* upstream record, in upstream order and without an error element, or
\* exactly one error record; records normalized before a failure are not
\* in the result.
C10_AllOrNothing ==
    (Done /\ op \in ListOps) =>
        /\ result.kind = "list"
        /\ \/ IsErrorMarker(result)
           \/ /\ ClientReturned
              /\ ~HasErrorElement(result)
              /\ Len(result.items) = Len(UpstreamRecords)
              /\ \A i \in 1..Len(UpstreamRecords) :
                    result.items[i].id =
                        IF UpstreamRecords[i].id = Absent THEN NA
                        ELSE UpstreamRecords[i].id

C10_Witness ==
    /\ ClientReturned
    /\ op = "dataproduct_list"
    /\ Len(UpstreamRecords) = 2
    /\ Len(formatted_products) = 1
    /\ Failed
    /\ IsErrorMarker(result)

====
